---- MODULE Spec2Model ----
(***************************************************************************)
(* Model of extract_routes.py: build_json_cache (the Term Index),          *)
(* get_route (the Route Resolver) and main (the row loop and the two       *)
(* output files).  Python strings are TLA+ strings; a Python value is a    *)
(* record [t |-> <type name>, v |-> <payload>].                            *)
(***************************************************************************)
EXTENDS Integers, Sequences, FiniteSets, TLC

VARIABLES pc, flat_dir, tree_dir, files, json_file_cache, csv_file,
          routes_file, df, idx, routes_list, ruta_landing_column,
          error_counts, call, ret

vars == <<pc, flat_dir, tree_dir, files, json_file_cache, csv_file,
          routes_file, df, idx, routes_list, ruta_landing_column,
          error_counts, call, ret>>

-----------------------------------------------------------------------------
(* Python values *)

PyNone == [t |-> "NoneType", v |-> ""]

PyStr(s) == [t |-> "str", v |-> s]

PyFloat(s) == [t |-> "float", v |-> s]

PyInt(s) == [t |-> "int", v |-> s]

PyList(items) == [t |-> "list", v |-> items]

PyDict(f) == [t |-> "dict", v |-> f]

-----------------------------------------------------------------------------
(* Python str methods used by the script *)

Whitespace == {" ", "\t", "\n", "\r"}

UPPER == "ABCDEFGHIJKLMNOPQRSTUVWXYZ"

LOWER == "abcdefghijklmnopqrstuvwxyz"

LowerOf(c) ==
    IF \E i \in 1..Len(UPPER) : SubSeq(UPPER, i, i) = c
    THEN LET i == CHOOSE i \in 1..Len(UPPER) : SubSeq(UPPER, i, i) = c
         IN SubSeq(LOWER, i, i)
    ELSE c

RECURSIVE py_lower(_)
py_lower(s) ==
    IF s = "" THEN "" ELSE LowerOf(Head(s)) \o py_lower(Tail(s))

RECURSIVE py_lstrip(_)
py_lstrip(s) ==
    IF s = "" THEN ""
    ELSE IF Head(s) \in Whitespace THEN py_lstrip(Tail(s)) ELSE s

RECURSIVE py_rstrip(_)
py_rstrip(s) ==
    IF s = "" THEN ""
    ELSE IF SubSeq(s, Len(s), Len(s)) \in Whitespace
         THEN py_rstrip(SubSeq(s, 1, Len(s) - 1))
         ELSE s

py_strip(s) == py_rstrip(py_lstrip(s))

py_startswith(s, prefix) ==
    Len(s) >= Len(prefix) /\ SubSeq(s, 1, Len(prefix)) = prefix

py_endswith(s, suffix) ==
    Len(s) >= Len(suffix) /\ SubSeq(s, Len(s) - Len(suffix) + 1, Len(s)) = suffix

py_contains(s, sub) ==
    \E i \in 1..(Len(s) - Len(sub) + 1) : SubSeq(s, i, i + Len(sub) - 1) = sub

\* a replace that stops after the first occurrence, as str.replace(old, new, 1)
py_replace_first(s, old, new) ==
    LET at == {i \in 1..(Len(s) - Len(old) + 1) :
                  SubSeq(s, i, i + Len(old) - 1) = old} IN
    IF at = {} THEN s
    ELSE LET i == CHOOSE i \in at : \A j \in at : i <= j IN
         SubSeq(s, 1, i - 1) \o new \o SubSeq(s, i + Len(old), Len(s))

\* str.replace(old, new) for a non-empty old: leftmost, non-overlapping, one pass
RECURSIVE py_replace(_, _, _)
py_replace(s, old, new) ==
    IF Len(s) < Len(old) THEN s
    ELSE IF SubSeq(s, 1, Len(old)) = old
         THEN new \o py_replace(SubSeq(s, Len(old) + 1, Len(s)), old, new)
         ELSE Head(s) \o py_replace(Tail(s), old, new)

\* s.split(sep)[0] for a one-character sep
RECURSIVE py_split_first(_, _)
py_split_first(s, sep) ==
    IF s = "" THEN ""
    ELSE IF Head(s) = sep THEN ""
         ELSE Head(s) \o py_split_first(Tail(s), sep)

-----------------------------------------------------------------------------
(* Paths *)

WORKSPACE_DIR == "c:\\Users\\Manu\\OneDrive\\Escritorio\\DBland\\rutas 412"

path_join(a, b) == a \o "\\" \o b

PARAMS_DIR == path_join(WORKSPACE_DIR, "params_Ingestas")

ATLAS_PROD_DIR == path_join(WORKSPACE_DIR, "atlas_prod-main")

-----------------------------------------------------------------------------
(* Files on disk: a configuration file either fails to open or parse        *)
(* (ok = FALSE, msg = str(e)) or parses to the Python value data.           *)

Unreadable(msg) == [ok |-> FALSE, msg |-> msg, data |-> PyNone]

Parsed(data) == [ok |-> TRUE, msg |-> "", data |-> data]

\* with open(json_file) as f: data = json.load(f)
json_load(fs, json_file) ==
    IF json_file \in DOMAIN fs
    THEN fs[json_file]
    ELSE Unreadable("[Errno 2] No such file or directory")

-----------------------------------------------------------------------------
(* get_route *)

Return(route, error) == [raised |-> "", route |-> route, error |-> error]

Raise(exc) == [raised |-> exc, route |-> PyNone, error |-> PyNone]

TOKEN == "$ENTIDAD"

\* `key in data`: the outcome of Python's membership test per type of data
key_in(data, key) ==
    CASE data.t = "dict" -> [raised |-> "", value |-> key \in DOMAIN data.v]
      [] data.t = "list" ->
            [raised |-> "",
             value |-> \E i \in 1..Len(data.v) :
                          data.v[i].t = "str" /\ data.v[i].v = key]
      [] data.t = "str" -> [raised |-> "", value |-> py_contains(data.v, key)]
      [] OTHER -> [raised |-> "TypeError", value |-> FALSE]

\* data.get(key, "") without the .strip()
get_unstripped(data, key) ==
    LET present == key_in(data, key) IN
    IF present.raised # "" THEN [raised |-> present.raised, value |-> ""]
    ELSE IF ~present.value THEN [raised |-> "", value |-> ""]
    ELSE IF data.t # "dict" THEN [raised |-> "AttributeError", value |-> ""]
    ELSE IF data.v[key].t # "str" THEN [raised |-> "AttributeError", value |-> ""]
    ELSE [raised |-> "", value |-> data.v[key].v]

\* data.get(key, "").strip() if key in data else ""
get_stripped(data, key) ==
    LET present == key_in(data, key) IN
    IF present.raised # "" THEN [raised |-> present.raised, value |-> ""]
    ELSE IF ~present.value THEN [raised |-> "", value |-> ""]
    ELSE IF data.t # "dict" THEN [raised |-> "AttributeError", value |-> ""]
    ELSE IF data.v[key].t # "str" THEN [raised |-> "AttributeError", value |-> ""]
    ELSE [raised |-> "", value |-> py_strip(data.v[key].v)]

\* lines 74-81 without the validation of lines 78-79
substitute_unvalidated(selected, entidad) ==
    IF entidad.t # "str" THEN Raise("AttributeError")
    ELSE Return(PyStr(py_replace(selected, TOKEN, py_lower(entidad.v))), PyNone)

\* lines 74-81, once a non-empty route was selected
substitute_and_validate(selected, entidad) ==
    IF entidad.t # "str" THEN Raise("AttributeError")
    ELSE LET route == py_replace(selected, TOKEN, py_lower(entidad.v)) IN
         IF route = "" \/ py_strip(route) = ""
         THEN Return(PyNone, PyStr("RUTA_INVALID_AFTER_REPLACEMENT"))
         ELSE Return(PyStr(route), PyNone)

\* lines 63-72 with the two keys tried in the other order
select_route_fallback_first(data, entidad) ==
    LET fallback == get_stripped(data, "directorio_de_archivo_en_hdfs") IN
    IF fallback.raised # "" THEN Raise(fallback.raised)
    ELSE IF fallback.value # "" THEN substitute_and_validate(fallback.value, entidad)
    ELSE LET primary == get_stripped(data, "ruta_landing") IN
         IF primary.raised # "" THEN Raise(primary.raised)
         ELSE IF primary.value = ""
              THEN Return(PyNone, PyStr("NO_VALID_ROUTE_KEY"))
              ELSE substitute_and_validate(primary.value, entidad)

\* lines 63-72, once the configuration was loaded
select_route(data, entidad) ==
    LET primary == get_stripped(data, "ruta_landing") IN
    IF primary.raised # "" THEN Raise(primary.raised)
    ELSE IF primary.value # "" THEN substitute_and_validate(primary.value, entidad)
    ELSE LET fallback == get_stripped(data, "directorio_de_archivo_en_hdfs") IN
         IF fallback.raised # "" THEN Raise(fallback.raised)
         ELSE IF fallback.value = ""
              THEN Return(PyNone, PyStr("NO_VALID_ROUTE_KEY"))
              ELSE substitute_and_validate(fallback.value, entidad)

\* get_route without the lookup of lines 52-53: the path is built and opened
get_route_open_first(cache, fs, atlas_term, entidad) ==
    LET loaded == IF atlas_term \in DOMAIN cache
                  THEN json_load(fs, cache[atlas_term])
                  ELSE json_load(fs, path_join(PARAMS_DIR, atlas_term \o ".json")) IN
    IF ~loaded.ok
    THEN Return(PyNone, PyStr("JSON_READ_ERROR: " \o loaded.msg))
    ELSE select_route(loaded.data, entidad)

get_route(cache, fs, atlas_term, entidad) ==
    IF atlas_term \notin DOMAIN cache
    THEN Return(PyNone, PyStr("FILE_NOT_FOUND: " \o atlas_term \o ".json"))
    ELSE LET loaded == json_load(fs, cache[atlas_term]) IN
         IF ~loaded.ok
         THEN Return(PyNone, PyStr("JSON_READ_ERROR: " \o loaded.msg))
         ELSE select_route(loaded.data, entidad)

-----------------------------------------------------------------------------
(* build_json_cache *)

EmptyCache == << >>

\* filename[:-5]
strip_extension(filename) == SubSeq(filename, 1, Len(filename) - 5)

\* lines 25-28: every .json name of the listing is registered
RECURSIVE scan_flat(_, _)
scan_flat(cache, names) ==
    IF names = << >> THEN cache
    ELSE LET filename == Head(names)
             updated == IF py_endswith(filename, ".json")
                        THEN (strip_extension(filename) :>
                                 path_join(PARAMS_DIR, filename)) @@ cache
                        ELSE cache
         IN scan_flat(updated, Tail(names))

\* lines 33-39 without the test of line 38: the last location met wins
RECURSIVE scan_files_last_wins(_, _, _)
scan_files_last_wins(cache, root, names) ==
    IF names = << >> THEN cache
    ELSE LET filename == Head(names)
             updated == IF py_endswith(filename, ".json")
                        THEN (strip_extension(filename) :>
                                 path_join(root, filename)) @@ cache
                        ELSE cache
         IN scan_files_last_wins(updated, root, Tail(names))

\* lines 33-39: the files of one directory of the walk
RECURSIVE scan_files(_, _, _)
scan_files(cache, root, names) ==
    IF names = << >> THEN cache
    ELSE LET filename == Head(names)
             atlas_term == strip_extension(filename)
             updated == IF py_endswith(filename, ".json")
                           /\ atlas_term \notin DOMAIN cache
                        THEN cache @@ (atlas_term :> path_join(root, filename))
                        ELSE cache
         IN scan_files(updated, root, Tail(names))

\* line 32: os.walk yields the directories top-down
RECURSIVE scan_tree(_, _)
scan_tree(cache, walk) ==
    IF walk = << >> THEN cache
    ELSE scan_tree(scan_files(cache, Head(walk).root, Head(walk).files),
                   Tail(walk))

build_json_cache(flat, tree) ==
    LET after_flat == IF flat.exists THEN scan_flat(EmptyCache, flat.names)
                      ELSE EmptyCache
    IN IF tree.exists THEN scan_tree(after_flat, tree.walk) ELSE after_flat

-----------------------------------------------------------------------------
(* main: the error breakdown of lines 146-150 *)

is_counted(entry) ==
    \/ py_startswith(entry, "RUTA_")
    \/ py_startswith(entry, "FILE_")
    \/ py_startswith(entry, "JSON_")

RECURSIVE count_errors(_, _)
count_errors(counts, column) ==
    IF column = << >> THEN counts
    ELSE LET error == Head(column)
             error_type == py_split_first(error, ":")
             updated ==
                 IF is_counted(error)
                 THEN IF error_type \in DOMAIN counts
                      THEN [counts EXCEPT ![error_type] = @ + 1]
                      ELSE counts @@ (error_type :> 1)
                 ELSE counts
         IN count_errors(updated, Tail(column))

-----------------------------------------------------------------------------
(* Bounds and input sets *)

MaxFiles == 2

MaxRows == 2

DistinctSeqs(S, n) ==
    {q \in UNION {[1..k -> S] : k \in 0..n} :
        \A i, j \in DOMAIN q : i # j => q[i] # q[j]}

NoCall == [made |-> FALSE, atlas_term |-> "", entidad |-> PyNone]

OldCell == "old"

OldRoutes == <<"/old/acme/raw">>

NoCsv == [readable |-> FALSE, rows |-> << >>, ruta_landing |-> << >>]

\* directory listings for build_json_cache
FlatNames == {"a.json", "b.json", "a.txt"}

TreeNames == {"a.json", "c.json", "c.txt"}

SUB_DIR == path_join(ATLAS_PROD_DIR, "sub")

FlatDirs ==
    {[exists |-> FALSE, names |-> << >>]}
    \cup {[exists |-> TRUE, names |-> q] : q \in DistinctSeqs(FlatNames, MaxFiles)}

TreeDirs ==
    {[exists |-> FALSE, walk |-> << >>]}
    \cup {[exists |-> TRUE, walk |-> <<[root |-> ATLAS_PROD_DIR, files |-> q]>>] :
             q \in DistinctSeqs(TreeNames, MaxFiles)}
    \cup {[exists |-> TRUE,
           walk |-> <<[root |-> ATLAS_PROD_DIR, files |-> q],
                      [root |-> SUB_DIR, files |-> r]>>] :
             q \in DistinctSeqs(TreeNames, MaxFiles),
             r \in DistinctSeqs(TreeNames, MaxFiles)}

\* configuration documents
Absent == [t |-> "absent", v |-> ""]

Config(primary, fallback) ==
    PyDict([k \in ({"otro"}
                  \cup (IF primary.t = "absent" THEN {} ELSE {"ruta_landing"})
                  \cup (IF fallback.t = "absent" THEN {}
                        ELSE {"directorio_de_archivo_en_hdfs"})) |->
              CASE k = "ruta_landing" -> primary
                [] k = "directorio_de_archivo_en_hdfs" -> fallback
                [] OTHER -> PyStr("x")])

PrimaryValues ==
    {Absent, PyNone, PyInt("412")}
    \cup {PyStr(x) : x \in {"/data/$ENTIDAD/raw", "   ", "", " /in/$ENTIDAD\n",
                            "$ENTIDAD", "$ENTIDAD $ENTIDAD", "$ENTIDADENTIDAD",
                            "$ENT$ENTIDADIDAD"}}

FallbackValues ==
    {Absent, PyNone}
    \cup {PyStr(x) : x \in {"/hdfs/$ENTIDAD", " ", "$ENTIDAD"}}

RouteDocs ==
    {Parsed(Config(p, f)) : p \in PrimaryValues, f \in FallbackValues}
    \cup {Parsed(PyList(<<PyStr("ruta_landing")>>)), Parsed(PyList(<< >>)),
          Parsed(PyStr("ruta_landing")), Parsed(PyStr("x")),
          Parsed(PyInt("1")), Parsed(PyNone),
          Unreadable("Expecting value: line 1 column 1 (char 0)"),
          Unreadable("[Errno 13] Permission denied")}

RouteTerms == {"t1", "zz"}

RouteEntidades ==
    {PyStr("ACME"), PyStr("Banco"), PyStr("U$D"), PyStr(""), PyStr(" "),
     PyStr("$"), PyFloat("nan")}

\* the directories of a run of main: t1 in both locations, t2 in the tree only
MainFlat == [exists |-> TRUE, names |-> <<"t1.json", "leeme.txt">>]

MainTree ==
    [exists |-> TRUE,
     walk |-> <<[root |-> ATLAS_PROD_DIR, files |-> <<"t1.json", "t2.json">>]>>]

FLAT_T1 == path_join(PARAMS_DIR, "t1.json")

TREE_T1 == path_join(ATLAS_PROD_DIR, "t1.json")

TREE_T2 == path_join(ATLAS_PROD_DIR, "t2.json")

MainDocs ==
    {Parsed(Config(PyStr("/data/$ENTIDAD/raw"), Absent)),
     Parsed(Config(PyStr(" $ENTIDAD "), Absent)),
     Parsed(Config(Absent, Absent)),
     Parsed(Config(PyNone, PyStr("/hdfs/$ENTIDAD"))),
     Unreadable("Expecting value: line 1 column 1 (char 0)")}

MainFiles(doc) ==
    (FLAT_T1 :> doc)
    @@ (TREE_T1 :> Parsed(Config(PyStr("/tree/t1"), Absent)))
    @@ (TREE_T2 :> Parsed(Config(Absent, PyStr("/hdfs/$ENTIDAD"))))

MainRows ==
    {[atlas_term |-> t, entidad |-> e] :
        t \in {"t1", "t2", "zz"},
        e \in {PyStr("ACME"), PyStr(" "), PyFloat("nan")}}

CsvFiles ==
    {NoCsv}
    \cup {[readable |-> TRUE, rows |-> q, ruta_landing |-> [i \in DOMAIN q |-> OldCell]] :
             q \in UNION {[1..k -> MainRows] : k \in 0..MaxRows}}

-----------------------------------------------------------------------------
(* Initial states *)

Idle ==
    /\ df = << >>
    /\ idx = 1
    /\ routes_list = << >>
    /\ ruta_landing_column = << >>
    /\ error_counts = << >>
    /\ call = NoCall
    /\ ret = Return(PyNone, PyNone)

\* a run of main
Init ==
    /\ pc = "build"
    /\ flat_dir = MainFlat
    /\ tree_dir = MainTree
    /\ \E doc \in MainDocs : files = MainFiles(doc)
    /\ json_file_cache = EmptyCache
    /\ csv_file \in CsvFiles
    /\ routes_file = OldRoutes
    /\ Idle

\* build_json_cache over any two directories
InitCache ==
    /\ pc = "build"
    /\ flat_dir \in FlatDirs
    /\ tree_dir \in TreeDirs
    /\ files = << >>
    /\ json_file_cache = EmptyCache
    /\ csv_file = NoCsv
    /\ routes_file = OldRoutes
    /\ Idle

\* get_route over any configuration of the indexed term t1
InitRoute ==
    /\ pc = "resolve"
    /\ flat_dir = MainFlat
    /\ tree_dir = MainTree
    /\ \E doc \in RouteDocs : files = MainFiles(doc)
    /\ json_file_cache = build_json_cache(MainFlat, MainTree)
    /\ csv_file = NoCsv
    /\ routes_file = OldRoutes
    /\ Idle

-----------------------------------------------------------------------------
(* Actions *)

\* line 85 (and the whole of build_json_cache)
BuildJsonCache ==
    /\ pc = "build"
    /\ json_file_cache' = build_json_cache(flat_dir, tree_dir)
    /\ pc' = "read"
    /\ UNCHANGED <<flat_dir, tree_dir, files, csv_file, routes_file, df, idx,
                   routes_list, ruta_landing_column, error_counts, call, ret>>

\* lines 87-98: pd.read_csv, returning from main when it raises
ReadCsv ==
    /\ pc = "read"
    /\ IF csv_file.readable
       THEN /\ df' = csv_file.rows
            /\ pc' = IF csv_file.rows = << >> THEN "save_csv" ELSE "loop"
       ELSE /\ df' = df
            /\ pc' = "returned"
    /\ idx' = 1
    /\ routes_list' = << >>
    /\ ruta_landing_column' = << >>
    /\ UNCHANGED <<flat_dir, tree_dir, files, json_file_cache, csv_file,
                   routes_file, error_counts, call, ret>>

\* lines 100-116: one iteration of the row loop; an exception leaving get_route
\* is caught nowhere and ends the run
ProcessRow ==
    /\ pc = "loop"
    /\ LET row == df[idx]
           r == get_route(json_file_cache, files, row.atlas_term, row.entidad)
       IN /\ call' = [made |-> TRUE, atlas_term |-> row.atlas_term,
                      entidad |-> row.entidad]
          /\ ret' = r
          /\ IF r.raised # ""
             THEN /\ pc' = "crashed"
                  /\ UNCHANGED <<idx, routes_list, ruta_landing_column>>
             ELSE /\ IF r.route.t # "NoneType"
                     THEN /\ routes_list' = Append(routes_list, r.route.v)
                          /\ ruta_landing_column' =
                                 Append(ruta_landing_column, r.route.v)
                     ELSE /\ routes_list' = routes_list
                          /\ ruta_landing_column' =
                                 Append(ruta_landing_column, r.error.v)
                  /\ idx' = idx + 1
                  /\ pc' = IF idx = Len(df) THEN "save_csv" ELSE "loop"
    /\ UNCHANGED <<flat_dir, tree_dir, files, json_file_cache, csv_file,
                   routes_file, df, error_counts>>

\* lines 118-128 with the locked file truncated before the error is raised
SaveCsv_truncating ==
    /\ pc = "save_csv"
    /\ \E outcome \in {"ok", "PermissionError", "OSError"} :
          CASE outcome = "ok" ->
                  /\ csv_file' = [csv_file EXCEPT
                                     !.ruta_landing = ruta_landing_column]
                  /\ pc' = "save_routes"
            [] outcome = "PermissionError" ->
                  /\ csv_file' = NoCsv
                  /\ pc' = "returned"
            [] OTHER ->
                  /\ csv_file' \in {csv_file, NoCsv}
                  /\ pc' = "crashed"
    /\ UNCHANGED <<flat_dir, tree_dir, files, json_file_cache, routes_file, df,
                   idx, routes_list, ruta_landing_column, error_counts, call, ret>>

\* lines 118-128: df.to_csv either writes the whole table, or fails to open the
\* locked file (PermissionError: return), or raises something else (uncaught)
SaveCsv ==
    /\ pc = "save_csv"
    /\ \E outcome \in {"ok", "PermissionError", "OSError"} :
          CASE outcome = "ok" ->
                  /\ csv_file' = [csv_file EXCEPT
                                     !.ruta_landing = ruta_landing_column]
                  /\ pc' = "save_routes"
            [] outcome = "PermissionError" ->
                  /\ csv_file' = csv_file
                  /\ pc' = "returned"
            [] OTHER ->
                  /\ csv_file' \in {csv_file, NoCsv}
                  /\ pc' = "crashed"
    /\ UNCHANGED <<flat_dir, tree_dir, files, json_file_cache, routes_file, df,
                   idx, routes_list, ruta_landing_column, error_counts, call, ret>>

\* lines 130-135 with the file opened in mode 'a'
SaveRoutes_appending ==
    /\ pc = "save_routes"
    /\ \E outcome \in {"ok", "OSError"} :
          IF outcome = "ok"
          THEN /\ routes_file' = routes_file \o routes_list
               /\ pc' = "summary"
          ELSE /\ routes_file' \in {routes_file, << >>}
               /\ pc' = "crashed"
    /\ UNCHANGED <<flat_dir, tree_dir, files, json_file_cache, csv_file, df,
                   idx, routes_list, ruta_landing_column, error_counts, call, ret>>

\* lines 130-135: open(..., 'w') and one line per route; a failure is uncaught
SaveRoutes ==
    /\ pc = "save_routes"
    /\ \E outcome \in {"ok", "OSError"} :
          IF outcome = "ok"
          THEN /\ routes_file' = routes_list
               /\ pc' = "summary"
          ELSE /\ routes_file' \in {routes_file, << >>}
               /\ pc' = "crashed"
    /\ UNCHANGED <<flat_dir, tree_dir, files, json_file_cache, csv_file, df,
                   idx, routes_list, ruta_landing_column, error_counts, call, ret>>

\* lines 137-155
Summary ==
    /\ pc = "summary"
    /\ error_counts' = count_errors(<< >>, ruta_landing_column)
    /\ pc' = "done"
    /\ UNCHANGED <<flat_dir, tree_dir, files, json_file_cache, csv_file,
                   routes_file, df, idx, routes_list, ruta_landing_column,
                   call, ret>>

\* one call of get_route(atlas_term, entidad)
GetRoute ==
    /\ pc = "resolve"
    /\ \E atlas_term \in RouteTerms, entidad \in RouteEntidades :
          /\ call' = [made |-> TRUE, atlas_term |-> atlas_term,
                      entidad |-> entidad]
          /\ ret' = get_route(json_file_cache, files, atlas_term, entidad)
    /\ UNCHANGED <<pc, flat_dir, tree_dir, files, json_file_cache, csv_file,
                   routes_file, df, idx, routes_list, ruta_landing_column,
                   error_counts>>

Next ==
    \/ BuildJsonCache
    \/ ReadCsv
    \/ ProcessRow
    \/ SaveCsv
    \/ SaveRoutes
    \/ Summary

Spec == Init /\ [][Next]_vars

NextCache == BuildJsonCache

SpecCache == InitCache /\ [][NextCache]_vars

NextRoute == GetRoute

SpecRoute == InitRoute /\ [][NextRoute]_vars

-----------------------------------------------------------------------------
(* Vocabulary of the properties, stated over positions of a string and not  *)
(* by the recursions above                                                  *)

Char(s, i) == SubSeq(s, i, i)

Blank(s) == \A i \in 1..Len(s) : Char(s, i) \in Whitespace

Trimmed(s) ==
    LET solid == {i \in 1..Len(s) : Char(s, i) \notin Whitespace} IN
    IF solid = {} THEN ""
    ELSE SubSeq(s, CHOOSE i \in solid : \A j \in solid : i <= j,
                   CHOOSE i \in solid : \A j \in solid : i >= j)

Occurrences(s) ==
    {i \in 1..(Len(s) - Len(TOKEN) + 1) :
        SubSeq(s, i, i + Len(TOKEN) - 1) = TOKEN}

RECURSIVE Expand(_, _, _)
Expand(s, e, i) ==
    IF i > Len(s) THEN ""
    ELSE (IF i \in Occurrences(s) THEN e
          ELSE IF \E k \in Occurrences(s) : k < i /\ i < k + Len(TOKEN) THEN ""
          ELSE Char(s, i)) \o Expand(s, e, i + 1)

\* s with the token at each of its occurrences replaced by e
Substituted(s, e) == Expand(s, e, 1)

HasToken(s) == Occurrences(s) # {}

Prefix(s, p) == Len(s) >= Len(p) /\ SubSeq(s, 1, Len(p)) = p

Tags ==
    {"FILE_NOT_FOUND", "JSON_READ_ERROR", "NO_VALID_ROUTE_KEY",
     "RUTA_INVALID_AFTER_REPLACEMENT"}

HasTag(error, tag) == error = tag \/ Prefix(error, tag \o ":")

Tag(error) ==
    IF \E tag \in Tags : HasTag(error, tag)
    THEN CHOOSE tag \in Tags : HasTag(error, tag)
    ELSE "?"

\* the call whose outcome is in ret
Indexed == call.atlas_term \in DOMAIN json_file_cache

Loaded == files[json_file_cache[call.atlas_term]]

IsObject == call.made /\ Indexed /\ Loaded.ok /\ Loaded.data.t = "dict"

Usable(key) ==
    /\ key \in DOMAIN Loaded.data.v
    /\ Loaded.data.v[key].t = "str"
    /\ ~Blank(Loaded.data.v[key].v)

Missing(key) ==
    \/ key \notin DOMAIN Loaded.data.v
    \/ Loaded.data.v[key].t = "str" /\ Blank(Loaded.data.v[key].v)

Returned == call.made /\ ret.raised = ""

Failed(tag) ==
    Returned /\ ret.route.t = "NoneType" /\ ret.error.t = "str"
    /\ Tag(ret.error.v) = tag

\* what resolution yields from the value of key
Derived(key) ==
    LET path == Substituted(Trimmed(Loaded.data.v[key].v),
                            py_lower(call.entidad.v)) IN
    IF Blank(path)
    THEN Return(PyNone, PyStr("RUTA_INVALID_AFTER_REPLACEMENT"))
    ELSE Return(PyStr(path), PyNone)

PRIMARY == "ruta_landing"

FALLBACK == "directorio_de_archivo_en_hdfs"

-----------------------------------------------------------------------------
(* C1: every call of get_route that returns yields exactly one of a         *)
(* non-empty, not whitespace-only route and a non-empty error code.         *)
C1_ExactlyOne ==
    Returned =>
        \/ ret.route.t = "str" /\ ~Blank(ret.route.v) /\ ret.error.t = "NoneType"
        \/ ret.route.t = "NoneType" /\ ret.error.t = "str" /\ ret.error.v # ""

C1_Witness ==
    /\ IsObject /\ Returned
    /\ Usable(PRIMARY)
    /\ Blank(call.entidad.v) /\ call.entidad.v # ""
    /\ ret.route.t = "NoneType"

(* C3: a usable ruta_landing decides the result whatever the fallback key   *)
(* holds; when ruta_landing is missing or blank, a usable                   *)
(* directorio_de_archivo_en_hdfs decides it, under the same substitution    *)
(* and validation.                                                          *)
C3_FallbackPrecedence ==
    (IsObject /\ call.entidad.t = "str") =>
        /\ Usable(PRIMARY) => ret = Derived(PRIMARY)
        /\ (Missing(PRIMARY) /\ Usable(FALLBACK)) => ret = Derived(FALLBACK)

C3_Witness ==
    /\ IsObject /\ Returned
    /\ PRIMARY \in DOMAIN Loaded.data.v /\ Missing(PRIMARY)
    /\ Usable(FALLBACK)
    /\ ret.route.t = "str" /\ ret.route.v = "/hdfs/acme"

(* C4 as written: a whitespace-only ruta_landing, or a substitution that    *)
(* leaves an empty or whitespace-only string, yields                        *)
(* RUTA_INVALID_AFTER_REPLACEMENT.                                          *)
C4_WhitespacePrimaryIsInvalid ==
    (IsObject /\ call.entidad.t = "str") =>
        /\ (/\ PRIMARY \in DOMAIN Loaded.data.v
            /\ Loaded.data.v[PRIMARY].t = "str"
            /\ Loaded.data.v[PRIMARY].v # ""
            /\ Blank(Loaded.data.v[PRIMARY].v))
           => Failed("RUTA_INVALID_AFTER_REPLACEMENT")
        /\ \A key \in {PRIMARY, FALLBACK} :
              (/\ Usable(key)
               /\ key = FALLBACK => Missing(PRIMARY)
               /\ Blank(Substituted(Trimmed(Loaded.data.v[key].v),
                                    py_lower(call.entidad.v))))
              => Failed("RUTA_INVALID_AFTER_REPLACEMENT")

(* C4 amended: a substitution that leaves an empty or whitespace-only       *)
(* string yields RUTA_INVALID_AFTER_REPLACEMENT; a whitespace-only          *)
(* ruta_landing counts as absent, so that with no usable fallback the       *)
(* result is NO_VALID_ROUTE_KEY.                                            *)
C4_InvalidAfterReplacement ==
    (IsObject /\ call.entidad.t = "str") =>
        /\ \A key \in {PRIMARY, FALLBACK} :
              (/\ Usable(key)
               /\ key = FALLBACK => Missing(PRIMARY)
               /\ Blank(Substituted(Trimmed(Loaded.data.v[key].v),
                                    py_lower(call.entidad.v))))
              => Failed("RUTA_INVALID_AFTER_REPLACEMENT")
        /\ (Missing(PRIMARY) /\ Missing(FALLBACK)) => Failed("NO_VALID_ROUTE_KEY")

C4_Witness ==
    /\ IsObject
    /\ Usable(PRIMARY) /\ HasToken(Loaded.data.v[PRIMARY].v)
    /\ call.entidad = PyStr(" ")
    /\ Failed("RUTA_INVALID_AFTER_REPLACEMENT")

\* C4: the whitespace-only ruta_landing of the amended statement is reached
C4_WitnessBlankPrimary ==
    /\ IsObject
    /\ PRIMARY \in DOMAIN Loaded.data.v /\ Loaded.data.v[PRIMARY] = PyStr("   ")
    /\ Missing(FALLBACK)
    /\ Failed("NO_VALID_ROUTE_KEY")

SelectedKey == IF Usable(PRIMARY) THEN PRIMARY ELSE FALLBACK

Succeeded == Returned /\ ret.route.t = "str"

IsSubstitution ==
    /\ IsObject
    /\ Usable(SelectedKey)
    /\ ret.route.v = Substituted(Trimmed(Loaded.data.v[SelectedKey].v),
                                 py_lower(call.entidad.v))

AcmeExample ==
    (/\ IsObject
     /\ PRIMARY \in DOMAIN Loaded.data.v
     /\ Loaded.data.v[PRIMARY] = PyStr("/data/$ENTIDAD/raw")
     /\ call.entidad = PyStr("ACME"))
    => ret = Return(PyStr("/data/acme/raw"), PyNone)

(* C8 as written: a successful call returns the selected trimmed value with *)
(* every occurrence of $ENTIDAD replaced by the lowercased entity name and  *)
(* nothing else changed, and for every entity name the returned path holds  *)
(* no occurrence of $ENTIDAD.                                               *)
C8_NoTokenRemains ==
    /\ AcmeExample
    /\ Succeeded => (IsSubstitution /\ ~HasToken(ret.route.v))

EndsWithDollar(e) == e # "" /\ Char(e, Len(e)) = "$"

(* C8 amended: as above, but the returned path holds no occurrence of       *)
(* $ENTIDAD only when the lowercased entity name is non-empty and does not  *)
(* end with "$": the replacement is one pass and what it builds is not      *)
(* scanned again.                                                           *)
C8_Substitution ==
    /\ AcmeExample
    /\ Succeeded =>
          /\ IsSubstitution
          /\ (call.entidad.v # "" /\ ~EndsWithDollar(call.entidad.v))
             => ~HasToken(ret.route.v)

C8_Witness ==
    /\ Succeeded /\ IsObject
    /\ Cardinality(Occurrences(Loaded.data.v[PRIMARY].v)) = 2
    /\ call.entidad = PyStr("ACME")
    /\ ret.route.v = "acme acme"

(* C9: get_route reports the first failing step: an identifier absent from  *)
(* the index yields FILE_NOT_FOUND whatever the entity value is; an indexed *)
(* file that cannot be read or parsed yields JSON_READ_ERROR; a parsed      *)
(* configuration whose two keys are both missing or blank yields            *)
(* NO_VALID_ROUTE_KEY; RUTA_INVALID_AFTER_REPLACEMENT is returned only when *)
(* lookup, load and key selection all passed.                               *)
C9_FirstFailingStep ==
    call.made =>
        /\ ~Indexed =>
              /\ Failed("FILE_NOT_FOUND")
              /\ ret.error.v = "FILE_NOT_FOUND: " \o call.atlas_term \o ".json"
        /\ (Indexed /\ ~Loaded.ok) => Failed("JSON_READ_ERROR")
        /\ (IsObject /\ Missing(PRIMARY) /\ Missing(FALLBACK))
              => Failed("NO_VALID_ROUTE_KEY")
        /\ Failed("RUTA_INVALID_AFTER_REPLACEMENT")
              => (IsObject /\ Usable(SelectedKey))

C9_Witness ==
    /\ call.made /\ ~Indexed
    /\ call.entidad.t = "float"
    /\ ~files[FLAT_T1].ok
    /\ Failed("FILE_NOT_FOUND")

-----------------------------------------------------------------------------
FlatTerms ==
    {t \in {strip_extension(flat_dir.names[i]) : i \in DOMAIN flat_dir.names} :
        \E i \in DOMAIN flat_dir.names : flat_dir.names[i] = t \o ".json"}

\* the places <<directory, file>> of the walk
Places ==
    UNION {{<<d, i>> : i \in DOMAIN tree_dir.walk[d].files} :
              d \in DOMAIN tree_dir.walk}

NameAt(pl) == tree_dir.walk[pl[1]].files[pl[2]]

\* the places that hold t.json
TreePlaces(t) == {pl \in Places : NameAt(pl) = t \o ".json"}

Earlier(a, b) == a[1] < b[1] \/ (a[1] = b[1] /\ a[2] < b[2])

TreeTerms ==
    {t \in {strip_extension(NameAt(pl)) : pl \in Places} : TreePlaces(t) # {}}

(* C2: after build_json_cache on an empty cache the index holds exactly the *)
(* identifiers that have a .json file in the flat directory or in the tree; *)
(* an identifier of the flat directory maps to its flat location; an        *)
(* identifier found in the tree only maps to the first location met in      *)
(* traversal order.                                                         *)
C2_TermIndex ==
    pc = "read" =>
        /\ DOMAIN json_file_cache = FlatTerms \cup TreeTerms
        /\ \A t \in FlatTerms :
              json_file_cache[t] = path_join(PARAMS_DIR, t \o ".json")
        /\ \A t \in TreeTerms \ FlatTerms :
              \E first \in TreePlaces(t) :
                 /\ \A other \in TreePlaces(t) \ {first} : Earlier(first, other)
                 /\ json_file_cache[t] =
                       path_join(tree_dir.walk[first[1]].root, t \o ".json")

C2_Witness ==
    /\ pc = "read"
    /\ "a" \in FlatTerms \cap TreeTerms
    /\ Cardinality(TreePlaces("c")) = 2
    /\ json_file_cache["a"] = path_join(PARAMS_DIR, "a.json")
    /\ json_file_cache["c"] = path_join(ATLAS_PROD_DIR, "c.json")

-----------------------------------------------------------------------------
(* main *)

Resolution(i) ==
    get_route(json_file_cache, files, df[i].atlas_term, df[i].entidad)

(* C5: whatever the configuration files and the entity values hold, the     *)
(* loop of main records a path or an error code for every row: once main is *)
(* past the loop or has stopped, there are as many recorded results as rows.*)
C5_EveryRowRecorded ==
    pc \in {"save_csv", "save_routes", "summary", "returned", "crashed", "done"}
        => Len(ruta_landing_column) = Len(df)

RECURSIVE CellsOfSuccessfulRows(_)
CellsOfSuccessfulRows(n) ==
    IF n = 0 THEN << >>
    ELSE IF Resolution(n).route.t = "str"
         THEN Append(CellsOfSuccessfulRows(n - 1), csv_file.ruta_landing[n])
         ELSE CellsOfSuccessfulRows(n - 1)

SuccessfulRows == {i \in DOMAIN df : Resolution(i).route.t = "str"}

(* C6: after a run of main that completes, the route list file holds        *)
(* exactly the cells of the new ruta_landing column that belong to the rows *)
(* whose resolution succeeded, in row order, and nothing of the previous    *)
(* content; the error codes of the other rows are in the column only.       *)
C6_RouteList ==
    pc = "done" =>
        /\ Len(csv_file.ruta_landing) = Len(df)
        /\ routes_file = CellsOfSuccessfulRows(Len(df))
        /\ Len(routes_file) = Cardinality(SuccessfulRows)
        /\ \A i \in SuccessfulRows :
              routes_file[Cardinality({j \in SuccessfulRows : j <= i})]
                 = Resolution(i).route.v
        /\ \A i \in DOMAIN df \ SuccessfulRows :
              csv_file.ruta_landing[i] = Resolution(i).error.v

C6_Witness ==
    /\ pc = "done"
    /\ Len(df) = 2
    /\ Resolution(1).route.t = "NoneType"
    /\ routes_file = <<"/data/acme/raw">>

(* C7: when the input dataset cannot be read, or the output dataset is      *)
(* locked, main returns and neither the dataset file nor the route list     *)
(* file has been written or truncated.                                      *)
C7_FatalLeavesFilesAlone ==
    /\ [](pc = "returned" =>
             /\ routes_file = OldRoutes
             /\ csv_file.ruta_landing = [i \in DOMAIN csv_file.rows |-> OldCell]
             /\ csv_file.readable => csv_file.rows = df)
    /\ [][pc' = "returned" => (csv_file' = csv_file /\ routes_file' = routes_file)]_vars

C7_Witness ==
    /\ pc = "returned"
    /\ csv_file.readable
    /\ Len(ruta_landing_column) = 2
    /\ routes_list # << >>

RECURSIVE Total(_)
Total(counts) ==
    IF DOMAIN counts = {} THEN 0
    ELSE LET k == CHOOSE k \in DOMAIN counts : TRUE IN
         counts[k] + Total([j \in DOMAIN counts \ {k} |-> counts[j]])

(* C10: the per-tag counts of the error breakdown sum to the number of      *)
(* failed rows: every failed row is counted once under its tag and no       *)
(* resolved row is counted.                                                 *)
C10_BreakdownCountsFailedRows ==
    pc = "done" =>
        /\ Total(error_counts) = Len(df) - Len(routes_list)
        /\ \A tag \in Tags :
              Cardinality({i \in DOMAIN df :
                              /\ Resolution(i).error.t = "str"
                              /\ Tag(Resolution(i).error.v) = tag})
              = (IF tag \in DOMAIN error_counts THEN error_counts[tag] ELSE 0)

====
